---- MODULE Spec2Model ----
(***************************************************************************)
(* The text adventure of adventure.py: the AdventureGame engine (player    *)
(* state, item placement, quest completion), the console session driver    *)
(* (_run_single_game, _resolve_turn and the command handlers) and the      *)
(* event log the driver appends to.                                        *)
(*                                                                         *)
(* A command string, after .lower().strip(), is modelled by the result of  *)
(* str.split(maxsplit=1): a tuple of one or two strings, e.g.              *)
(* <<"look">>, <<"go", "east">>, <<"take", "lucky mug">>.                  *)
(***************************************************************************)
EXTENDS Integers, Sequences, FiniteSets, TLC

----------------------------------------------------------------------------
(* Module constants of adventure.py *)

DEFAULT_MIN_SCORE == 60

\* The turn budget of a session.  adventure.py sets 67; the model plays sessions
\* with a budget small enough to enumerate, and the properties never use its value.
DEFAULT_MAX_TURNS == 3

REQUIRED_ITEMS == {"lucky mug", "usb drive", "laptop charger"}

MENU_COMMANDS ==
    {<<"look">>, <<"inventory">>, <<"score">>, <<"log">>, <<"submit", "early">>, <<"quit">>}

ITEM_COMMAND_PREFIXES == {"take", "drop", "inspect"}

\* Python's None, where an Item is expected.
None == [name |-> "None", start_position |-> 0, target_position |-> 0, target_points |-> 0]

\* Python's None, where a command is expected (previous_choice, next_command).
NoCommand == <<>>

----------------------------------------------------------------------------
(* World data.  The JSON files are not part of the sources; these are two  *)
(* small documents of the shape _load_game_data reads, with referential    *)
(* integrity and every item listed in exactly one location (its start).    *)

LocationData(id, commands, item_names) ==
    [id |-> id, available_commands |-> commands, items |-> item_names]

\* A location document with the optional key 'restrictions': here the names of the
\* items the player must carry to enter the location.
RestrictedLocationData(id, commands, item_names, restrictions) ==
    [id |-> id, available_commands |-> commands, items |-> item_names,
     restrictions |-> restrictions]

ItemData(name, start, target, points) ==
    [name |-> name, start_position |-> start, target_position |-> target,
     target_points |-> points]

GameDataJson ==
    [locations |->
        << LocationData(1, (<<"go", "west">> :> 2) @@ (<<"go", "south">> :> 3),
                        <<"toonie">>),
           LocationData(2, (<<"go", "east">> :> 1),
                        <<"lucky mug", "usb drive", "laptop charger">>),
           RestrictedLocationData(3, (<<"go", "north">> :> 1), << >>, {"toonie"}) >>,
     items |->
        << ItemData("toonie", 1, 2, 40),
           ItemData("lucky mug", 2, 1, 10),
           ItemData("usb drive", 2, 1, 20),
           ItemData("laptop charger", 2, 1, 20) >>]

SampleLocationsJson ==
    [locations |->
        << LocationData(1, (<<"go", "east">> :> 2), << >>),
           LocationData(2, (<<"go", "east">> :> 3), << >>),
           LocationData(3, (<<"go", "west">> :> 2), << >>) >>,
     items |-> << >>]

DataFiles == {"game_data.json", "sample_locations.json"}

ReadJson(filename) ==
    IF filename = "game_data.json" THEN GameDataJson ELSE SampleLocationsJson

----------------------------------------------------------------------------
(* Sequence helpers: Python list membership and list.remove *)

Range(s) == {s[i] : i \in 1..Len(s)}

\* list.remove(x): drops the first occurrence of x (the callers test membership first)
ListRemove(s, x) ==
    IF x \notin Range(s) THEN s
    ELSE LET i == CHOOSE k \in 1..Len(s) : s[k] = x /\ \A j \in 1..(k - 1) : s[j] # x
         IN  SubSeq(s, 1, i - 1) \o SubSeq(s, i + 1, Len(s))

----------------------------------------------------------------------------
(* AdventureGame *)

\* game_entities.Location as _load_game_data builds it; visited starts False.
\* restrictions is the set of item names the player must carry to enter, rewards
\* the set of pairs <<dropped item, item granted>>; both are empty when the
\* document has no such key.
Location(loc_data) ==
    [id_num |-> loc_data.id,
     available_commands |-> loc_data.available_commands,
     items |-> loc_data.items,
     restrictions |-> IF "restrictions" \in DOMAIN loc_data THEN loc_data.restrictions
                      ELSE {},
     rewards |-> IF "rewards" \in DOMAIN loc_data THEN loc_data.rewards ELSE {},
     visited |-> FALSE]

_load_game_data(filename) ==
    LET data == ReadJson(filename)
        ids  == {data.locations[i].id : i \in 1..Len(data.locations)}
        at(id) == CHOOSE i \in 1..Len(data.locations) : data.locations[i].id = id
    IN  [locations   |-> [id \in ids |-> Location(data.locations[at(id)])],
         items       |-> data.items,
         valid_items |-> {data.items[i].name : i \in 1..Len(data.items)}]

\* PlayerState(): the dataclass's defaults
PlayerState == [inventory |-> << >>, score |-> 0, turn |-> 0, returned |-> {}]

\* AdventureGame.__init__ ; the fields of _state are kept in the game record, as the
\* properties inventory, score, turn and returned expose them
AdventureGame(filename, initial_id) ==
    LET loaded == _load_game_data(filename)
    IN  [locations           |-> loaded.locations,
         items               |-> loaded.items,
         valid_items         |-> loaded.valid_items,
         current_location_id |-> initial_id,
         ongoing             |-> TRUE,
         inventory           |-> PlayerState.inventory,
         score               |-> PlayerState.score,
         turn                |-> PlayerState.turn,
         returned            |-> PlayerState.returned]

\* AdventureGame.__getattr__: the legacy constant names
\* what reading an attribute yields when __getattr__ raises AttributeError
AttributeError == "AttributeError"

\* __getattr__ is called for the names that are no attribute and no property of the
\* game (inventory, score, turn and returned are properties).
__getattr__(name) ==
    CASE name = "MIN_SCORE" -> DEFAULT_MIN_SCORE
      [] name = "MAX_TURNS" -> DEFAULT_MAX_TURNS
      [] OTHER -> AttributeError

get_location(g) == g.locations[g.current_location_id]

get_item(g, item_name) ==
    IF \E i \in 1..Len(g.items) : g.items[i].name = item_name
    THEN g.items[CHOOSE i \in 1..Len(g.items) :
                    /\ g.items[i].name = item_name
                    /\ \A j \in 1..(i - 1) : g.items[j].name # item_name]
    ELSE None

\* Each engine method is a function from the game to the game after the call,
\* its return value and the lines it prints.
Returned(g, ret, out_) == [game |-> g, ret |-> ret, out |-> out_]

\* pick_up that leaves the name in the location's list
pick_up_keeps_listing(g, item_name) ==
    LET curr_item == get_item(g, item_name)
    IN  IF item_name \notin g.valid_items THEN Returned(g, "False", << >>)
        ELSE IF curr_item = None THEN Returned(g, "False", << >>)
        ELSE IF item_name \notin Range(get_location(g).items) THEN Returned(g, "False", << >>)
        ELSE Returned([g EXCEPT !.inventory = Append(@, curr_item)], "True", << >>)

\* pick_up that does not test whether the item lies in the current location
pick_up_anywhere(g, item_name) ==
    LET curr_item == get_item(g, item_name)
        here == g.current_location_id
    IN  IF item_name \notin g.valid_items THEN Returned(g, "False", << >>)
        ELSE IF curr_item = None THEN Returned(g, "False", << >>)
        ELSE Returned([g EXCEPT !.inventory = Append(@, curr_item),
                                !.locations[here].items = ListRemove(@, item_name)],
                      "True", << >>)

\* pick_up that appends to the inventory before it tests the location's list
pick_up_appends_first(g, item_name) ==
    LET curr_item == get_item(g, item_name)
        here == g.current_location_id
        taken == [g EXCEPT !.inventory = Append(@, curr_item)]
    IN  IF item_name \notin g.valid_items THEN Returned(g, "False", << >>)
        ELSE IF curr_item = None THEN Returned(g, "False", << >>)
        ELSE IF item_name \notin Range(get_location(g).items)
             THEN Returned(taken, "False", << >>)
        ELSE Returned([taken EXCEPT !.locations[here].items = ListRemove(@, item_name)],
                      "True", << >>)

pick_up(g, item_name) ==
    LET curr_item == get_item(g, item_name)
        here == g.current_location_id
    IN  IF item_name \notin g.valid_items THEN Returned(g, "False", << >>)
        ELSE IF curr_item = None THEN Returned(g, "False", << >>)
        ELSE IF item_name \notin Range(get_location(g).items) THEN Returned(g, "False", << >>)
        ELSE Returned([g EXCEPT !.inventory = Append(@, curr_item),
                                !.locations[here].items = ListRemove(@, item_name)],
                      "True", << >>)

\* drop that lists the item in the location and leaves it in the inventory
drop_keeps_inventory(g, item_name) ==
    LET curr_item == get_item(g, item_name)
        here == g.current_location_id
    IN  IF item_name \notin g.valid_items THEN Returned(g, "False", << >>)
        ELSE IF curr_item = None \/ curr_item \notin Range(g.inventory)
             THEN Returned(g, "False", << >>)
        ELSE Returned([g EXCEPT !.locations[here].items = Append(@, item_name)],
                      "True", << >>)

\* drop that does not test whether the item is in the inventory
drop_unheld(g, item_name) ==
    LET curr_item == get_item(g, item_name)
        here == g.current_location_id
    IN  IF item_name \notin g.valid_items THEN Returned(g, "False", << >>)
        ELSE IF curr_item = None THEN Returned(g, "False", << >>)
        ELSE Returned([g EXCEPT !.inventory = ListRemove(@, curr_item),
                                !.locations[here].items = Append(@, item_name)],
                      "True", << >>)

drop(g, item_name) ==
    LET curr_item == get_item(g, item_name)
        here == g.current_location_id
    IN  IF item_name \notin g.valid_items THEN Returned(g, "False", << >>)
        ELSE IF curr_item = None \/ curr_item \notin Range(g.inventory)
             THEN Returned(g, "False", << >>)
        ELSE Returned([g EXCEPT !.inventory = ListRemove(@, curr_item),
                                !.locations[here].items = Append(@, item_name)],
                      "True", << >>)

\* inspect that prints the hint of every item of the catalog, carried or not
inspect_any_known(g, item_name) ==
    LET curr_item == get_item(g, item_name)
    IN  IF item_name \notin g.valid_items THEN Returned(g, "None", << >>)
        ELSE IF curr_item # None
             THEN Returned(g, "None", <<"hint", "It needs to go to">>)
        ELSE Returned(g, "None", << >>)

inspect(g, item_name) ==
    LET curr_item == get_item(g, item_name)
    IN  IF item_name \notin g.valid_items THEN Returned(g, "None", << >>)
        ELSE IF curr_item # None /\ curr_item \in Range(g.inventory)
             THEN Returned(g, "None", <<"hint", "It needs to go to">>)
        ELSE Returned(g, "None", << >>)

\* check_quest that credits the item and leaves it in the location's list
check_quest_leaves_item(g, item_name) ==
    LET curr_item == get_item(g, item_name)
        curr_location == get_location(g)
    IN  IF curr_item = None THEN Returned(g, "False", << >>)
        ELSE IF \/ curr_item.target_position # curr_location.id_num
                \/ item_name \notin Range(curr_location.items)
             THEN Returned(g, "False", << >>)
        ELSE Returned([g EXCEPT !.returned = @ \cup {item_name},
                                !.score = @ + curr_item.target_points],
                      "True", <<"completion_text", "Your score is now">>)

\* check_quest that does not test whether the item lies in the location
check_quest_ungated(g, item_name) ==
    LET curr_item == get_item(g, item_name)
        curr_location == get_location(g)
        here == g.current_location_id
    IN  IF curr_item = None THEN Returned(g, "False", << >>)
        ELSE IF curr_item.target_position # curr_location.id_num
             THEN Returned(g, "False", << >>)
        ELSE Returned([g EXCEPT !.returned = @ \cup {item_name},
                                !.score = @ + curr_item.target_points,
                                !.locations[here].items = ListRemove(@, item_name)],
                      "True", <<"completion_text", "Your score is now">>)

\* check_quest that fails only when both tests fail ("and" for "or")
check_quest_either(g, item_name) ==
    LET curr_item == get_item(g, item_name)
        curr_location == get_location(g)
        here == g.current_location_id
    IN  IF curr_item = None THEN Returned(g, "False", << >>)
        ELSE IF /\ curr_item.target_position # curr_location.id_num
                /\ item_name \notin Range(curr_location.items)
             THEN Returned(g, "False", << >>)
        ELSE Returned([g EXCEPT !.returned = @ \cup {item_name},
                                !.score = @ + curr_item.target_points,
                                !.locations[here].items = ListRemove(@, item_name)],
                      "True", <<"completion_text", "Your score is now">>)

\* check_quest that assigns the returned set instead of adding to it
check_quest_assigns_returned(g, item_name) ==
    LET curr_item == get_item(g, item_name)
        curr_location == get_location(g)
        here == g.current_location_id
    IN  IF curr_item = None THEN Returned(g, "False", << >>)
        ELSE IF \/ curr_item.target_position # curr_location.id_num
                \/ item_name \notin Range(curr_location.items)
             THEN Returned(g, "False", << >>)
        ELSE Returned([g EXCEPT !.returned = {item_name},
                                !.score = @ + curr_item.target_points,
                                !.locations[here].items = ListRemove(@, item_name)],
                      "True", <<"completion_text", "Your score is now">>)

check_quest(g, item_name) ==
    LET curr_item == get_item(g, item_name)
        curr_location == get_location(g)
        here == g.current_location_id
    IN  IF curr_item = None THEN Returned(g, "False", << >>)
        ELSE IF \/ curr_item.target_position # curr_location.id_num
                \/ item_name \notin Range(curr_location.items)
             THEN Returned(g, "False", << >>)
        ELSE Returned([g EXCEPT !.returned = @ \cup {item_name},
                                !.score = @ + curr_item.target_points,
                                !.locations[here].items = ListRemove(@, item_name)],
                      "True", <<"completion_text", "Your score is now">>)

\* submit_early that ends the session only for a player who has won
submit_early_if_won(g) ==
    IF g.score >= DEFAULT_MIN_SCORE /\ REQUIRED_ITEMS \subseteq g.returned
    THEN [g EXCEPT !.ongoing = FALSE]
    ELSE g

submit_early(g) == [g EXCEPT !.ongoing = FALSE]

\* reset that restores the player state and does not reload the catalog
reset_keeps_catalog(g) ==
    [g EXCEPT !.current_location_id = 1,
              !.ongoing = TRUE,
              !.inventory = PlayerState.inventory,
              !.score = PlayerState.score,
              !.turn = PlayerState.turn,
              !.returned = PlayerState.returned]

\* reset that returns to location 0, which no data file defines
reset_to_location_0(g) ==
    LET loaded == _load_game_data("game_data.json")
    IN  [g EXCEPT !.locations = loaded.locations,
                  !.items = loaded.items,
                  !.valid_items = loaded.valid_items,
                  !.current_location_id = 0,
                  !.ongoing = TRUE,
                  !.inventory = PlayerState.inventory,
                  !.score = PlayerState.score,
                  !.turn = PlayerState.turn,
                  !.returned = PlayerState.returned]

\* AdventureGame.reset: reloads "game_data.json" and returns to location 1
reset(g) ==
    LET loaded == _load_game_data("game_data.json")
    IN  [g EXCEPT !.locations = loaded.locations,
                  !.items = loaded.items,
                  !.valid_items = loaded.valid_items,
                  !.current_location_id = 1,
                  !.ongoing = TRUE,
                  !.inventory = PlayerState.inventory,
                  !.score = PlayerState.score,
                  !.turn = PlayerState.turn,
                  !.returned = PlayerState.returned]

----------------------------------------------------------------------------
(* The two engine methods simulation.py calls that adventure.py does not    *)
(* define: the gate on a location's restrictions and the rewards of a drop. *)

\* can_enter_location(location_id): (can_enter, message)
can_enter_location(g, location_id) ==
    LET carried == {g.inventory[i].name : i \in 1..Len(g.inventory)}
    IN  IF g.locations[location_id].restrictions \subseteq carried
        THEN <<TRUE, "">>
        ELSE <<FALSE, "You cannot enter yet.">>

\* apply_location_rewards(item_name): the current location grants its rewards for
\* the item just dropped
apply_location_rewards(g, item_name) ==
    LET granted == {r \in get_location(g).rewards : r[1] = item_name}
    IN  IF granted = {} THEN g
        ELSE [g EXCEPT !.inventory = Append(@, get_item(g, (CHOOSE r \in granted : TRUE)[2]))]

----------------------------------------------------------------------------
(* EventList (event_logger.py): a singly linked list of events with first  *)
(* and last references, modelled by the sequence of its events from first  *)
(* to last.  Each event holds the location id it records and the command   *)
(* chosen at it (next_command).                                            *)

Event(id_num) == [id_num |-> id_num, next_command |-> NoCommand]

EventList == << >>

add_event(log, event, command) ==
    IF log = << >> THEN <<event>>
    ELSE Append([log EXCEPT ![Len(log)].next_command = command], event)

get_id_log(log) == [i \in 1..Len(log) |-> log[i].id_num]

----------------------------------------------------------------------------
(* The console driver *)

\* _did_player_win that looks at the score alone
_did_player_win_score_only(g) == g.score >= __getattr__("MIN_SCORE")

_did_player_win(g) ==
    g.score >= __getattr__("MIN_SCORE") /\ REQUIRED_ITEMS \subseteq g.returned

\* prints the long description on the first visit, the brief one afterwards
_show_location(g, id) ==
    IF g.locations[id].visited
    THEN Returned(g, "None", <<"brief_description">>)
    ELSE Returned([g EXCEPT !.locations[id].visited = TRUE], "None", <<"long_description">>)

\* str.startswith(prefix) for the first word of a command: the word is the prefix,
\* or one of the longer words typed in the model that begin with it
StartsWith(word, prefix) == word = prefix \/ (word = "takeoff" /\ prefix = "take")

\* choice.startswith(prefix) and len(choice) > len(prefix), for some prefix: the
\* first word is longer than the prefix, or it is the prefix and more words follow
_is_item_command(c) ==
    \E prefix \in ITEM_COMMAND_PREFIXES :
        /\ StartsWith(c[1], prefix)
        /\ (c[1] # prefix \/ Len(c) = 2)

_is_valid_choice(c, location) ==
    \/ c \in DOMAIN location.available_commands
    \/ c \in MENU_COMMANDS
    \/ _is_item_command(c)

\* _parse_item_command that cuts the verb off by prefix rather than at the blank
_parse_item_command_by_prefix(c) ==
    IF Len(c) = 1 /\ c[1] = "takeoff" THEN <<"take", "off">>
    ELSE IF Len(c) # 2 THEN NoCommand
    ELSE IF c[1] \notin {"take", "drop", "inspect"} \/ c[2] = "" THEN NoCommand
    ELSE <<c[1], c[2]>>

\* (verb, item_name), or NoCommand for Python's None
_parse_item_command(c) ==
    IF Len(c) # 2 THEN NoCommand
    ELSE IF c[1] \notin {"take", "drop", "inspect"} \/ c[2] = "" THEN NoCommand
    ELSE <<c[1], c[2]>>

\* _handle_item_command that ends the session when a drop completes the win
_handle_item_command_ends_on_win(g, c) ==
    LET parsed == _parse_item_command(c)
        verb == parsed[1]
        item_name == parsed[2]
    IN  IF parsed = NoCommand
        THEN Returned(g, "None", <<"That was an invalid option; try again.">>)
        ELSE IF verb = "take"
        THEN LET r == pick_up(g, item_name)
             IN  IF r.ret = "True" THEN Returned(r.game, r.ret, <<"You picked up">>)
                 ELSE Returned(r.game, r.ret, <<"No such item here.">>)
        ELSE IF verb = "drop"
        THEN LET r == drop(g, item_name)
                 q == check_quest(r.game, item_name)
             IN  IF r.ret = "True"
                 THEN Returned(IF _did_player_win(q.game) THEN submit_early(q.game) ELSE q.game,
                               q.ret, <<"You dropped">> \o q.out)
                 ELSE Returned(r.game, r.ret, <<"No such item in inventory.">>)
        ELSE inspect(g, item_name)

\* _handle_item_command that does not call check_quest after a drop
_handle_item_command_no_quest(g, c) ==
    LET parsed == _parse_item_command(c)
        verb == parsed[1]
        item_name == parsed[2]
    IN  IF parsed = NoCommand
        THEN Returned(g, "None", <<"That was an invalid option; try again.">>)
        ELSE IF verb = "take"
        THEN LET r == pick_up(g, item_name)
             IN  IF r.ret = "True" THEN Returned(r.game, r.ret, <<"You picked up">>)
                 ELSE Returned(r.game, r.ret, <<"No such item here.">>)
        ELSE IF verb = "drop"
        THEN LET r == drop(g, item_name)
             IN  IF r.ret = "True" THEN Returned(r.game, "False", <<"You dropped">>)
                 ELSE Returned(r.game, r.ret, <<"No such item in inventory.">>)
        ELSE inspect(g, item_name)

_handle_item_command(g, c) ==
    LET parsed == _parse_item_command(c)
        verb == parsed[1]
        item_name == parsed[2]
    IN  IF parsed = NoCommand
        THEN Returned(g, "None", <<"That was an invalid option; try again.">>)
        ELSE IF verb = "take"
        THEN LET r == pick_up(g, item_name)
             IN  IF r.ret = "True" THEN Returned(r.game, r.ret, <<"You picked up">>)
                 ELSE Returned(r.game, r.ret, <<"No such item here.">>)
        ELSE IF verb = "drop"
        THEN LET r == drop(g, item_name)
                 q == check_quest(r.game, item_name)
             IN  IF r.ret = "True" THEN Returned(q.game, q.ret, <<"You dropped">> \o q.out)
                 ELSE Returned(r.game, r.ret, <<"No such item in inventory.">>)
        ELSE inspect(g, item_name)

\* _handle_non_movement_command that counts a turn for the four menu queries
_handle_non_movement_command_counts_turns(g, c) ==
    IF c = <<"log">> THEN Returned([g EXCEPT !.turn = @ + 1], "None", <<"display_events">>)
    ELSE IF c = <<"look">>
         THEN Returned([g EXCEPT !.turn = @ + 1], "None", <<"long_description", "items">>)
    ELSE IF c = <<"inventory">> THEN Returned([g EXCEPT !.turn = @ + 1], "None", <<"inventory">>)
    ELSE IF c = <<"score">> THEN Returned([g EXCEPT !.turn = @ + 1], "None", <<"score">>)
    ELSE IF c = <<"quit">> THEN Returned([g EXCEPT !.ongoing = FALSE], "None", << >>)
    ELSE IF c = <<"submit", "early">> THEN Returned(submit_early(g), "None", << >>)
    ELSE _handle_item_command(g, c)

_handle_non_movement_command(g, c) ==
    IF c = <<"log">> THEN Returned(g, "None", <<"display_events">>)
    ELSE IF c = <<"look">> THEN Returned(g, "None", <<"long_description", "items">>)
    ELSE IF c = <<"inventory">> THEN Returned(g, "None", <<"inventory">>)
    ELSE IF c = <<"score">> THEN Returned(g, "None", <<"score">>)
    ELSE IF c = <<"quit">> THEN Returned([g EXCEPT !.ongoing = FALSE], "None", << >>)
    ELSE IF c = <<"submit", "early">> THEN Returned(submit_early(g), "None", << >>)
    ELSE _handle_item_command(g, c)

\* _apply_movement that ends the session one movement late (">" for ">=")
_apply_movement_late(g, location, c) ==
    LET moved == [g EXCEPT !.current_location_id = location.available_commands[c],
                           !.turn = @ + 1]
    IN  IF moved.turn > __getattr__("MAX_TURNS")
        THEN [moved EXCEPT !.ongoing = FALSE]
        ELSE moved

_apply_movement(g, location, c) ==
    LET moved == [g EXCEPT !.current_location_id = location.available_commands[c],
                           !.turn = @ + 1]
    IN  IF moved.turn >= __getattr__("MAX_TURNS")
        THEN [moved EXCEPT !.ongoing = FALSE]
        ELSE moved

----------------------------------------------------------------------------
(* AdventureGameSimulation (simulation.py).  The events are added without   *)
(* a command (add_event's second argument is left out).                     *)

(* Strings as they are typed.  A command is the tuple of its words; a run   *)
(* of whitespace before the first or after the last word is the word " ".   *)
(* The words of a command in the form strip() and lower() leave it are what *)
(* split(maxsplit=1) makes of it, the item name being one word.             *)
Whitespace == " "

\* the lower case of the words that are typed with capitals
LowerCase(word) ==
    CASE word = "GO" -> "go"
      [] word = "WEST" -> "west"
      [] word = "Take" -> "take"
      [] word = "Toonie" -> "toonie"
      [] OTHER -> word

\* str.lower
lower(s) == [i \in 1..Len(s) |-> LowerCase(s[i])]

RECURSIVE lstrip(_)
lstrip(s) == IF s # << >> /\ Head(s) = Whitespace THEN lstrip(Tail(s)) ELSE s

RECURSIVE rstrip(_)
rstrip(s) ==
    IF s # << >> /\ s[Len(s)] = Whitespace THEN rstrip(SubSeq(s, 1, Len(s) - 1)) ELSE s

\* str.strip
strip(s) == rstrip(lstrip(s))

\* _process_non_movement_command: the game after the command
_process_non_movement_command(g, command) ==
    IF Len(command) # 2 THEN g
    ELSE LET verb == command[1]
             item_name == command[2]
             dropped == drop(g, item_name)
         IN  IF verb = "take" THEN pick_up(g, item_name).game
             ELSE IF verb = "drop" /\ dropped.ret = "True"
                  THEN apply_location_rewards(check_quest(dropped.game, item_name).game,
                                              item_name)
             ELSE g

\* What one pass of generate_events' loop leaves: the game, the event list and the
\* local curr_location (a location of the game, held by its id).
Iterated(g, events, curr_location) ==
    [game |-> g, events |-> events, curr_location |-> curr_location]

\* the loop body that records the location a movement leaves
generate_events_iteration_logs_origin(g, events, current_location, curr_location, command) ==
    LET normalized == lower(strip(command))
        here == g.locations[curr_location]
    IN  IF normalized \in DOMAIN here.available_commands
        THEN LET next_location_id == here.available_commands[normalized]
                 can_enter == can_enter_location(g, next_location_id)[1]
             IN  IF can_enter
                 THEN Iterated([g EXCEPT !.current_location_id = next_location_id],
                               add_event(events, Event(curr_location), NoCommand),
                               next_location_id)
                 ELSE Iterated(g, add_event(events, Event(curr_location), NoCommand), curr_location)
        ELSE LET after == _process_non_movement_command(g, normalized)
             IN  Iterated(after, add_event(events, Event(after.current_location_id), NoCommand),
                          after.current_location_id)

\* the loop body that reads the parameter current_location for curr_location
\* after a command that is no movement
generate_events_iteration_restarts(g, events, current_location, curr_location, command) ==
    LET normalized == lower(strip(command))
        here == g.locations[curr_location]
    IN  IF normalized \in DOMAIN here.available_commands
        THEN LET next_location_id == here.available_commands[normalized]
                 can_enter == can_enter_location(g, next_location_id)[1]
             IN  IF can_enter
                 THEN Iterated([g EXCEPT !.current_location_id = next_location_id],
                               add_event(events, Event(next_location_id), NoCommand),
                               next_location_id)
                 ELSE Iterated(g, add_event(events, Event(curr_location), NoCommand), curr_location)
        ELSE LET after == _process_non_movement_command(g, normalized)
             IN  Iterated(after, add_event(events, Event(current_location), NoCommand), current_location)

\* the loop body that adds an event for movement commands only
generate_events_iteration_logs_moves_only(g, events, current_location, curr_location, command) ==
    LET normalized == lower(strip(command))
        here == g.locations[curr_location]
    IN  IF normalized \in DOMAIN here.available_commands
        THEN LET next_location_id == here.available_commands[normalized]
                 can_enter == can_enter_location(g, next_location_id)[1]
             IN  IF can_enter
                 THEN Iterated([g EXCEPT !.current_location_id = next_location_id],
                               add_event(events, Event(next_location_id), NoCommand),
                               next_location_id)
                 ELSE Iterated(g, add_event(events, Event(curr_location), NoCommand), curr_location)
        ELSE LET after == _process_non_movement_command(g, normalized)
             IN  Iterated(after, events, after.current_location_id)

\* the loop body that takes the command as it was typed
generate_events_iteration_as_typed(g, events, current_location, curr_location, command) ==
    LET normalized == command
        here == g.locations[curr_location]
    IN  IF normalized \in DOMAIN here.available_commands
        THEN LET next_location_id == here.available_commands[normalized]
                 can_enter == can_enter_location(g, next_location_id)[1]
             IN  IF can_enter
                 THEN Iterated([g EXCEPT !.current_location_id = next_location_id],
                               add_event(events, Event(next_location_id), NoCommand),
                               next_location_id)
                 ELSE Iterated(g, add_event(events, Event(curr_location), NoCommand), curr_location)
        ELSE LET after == _process_non_movement_command(g, normalized)
             IN  Iterated(after, add_event(events, Event(after.current_location_id), NoCommand),
                          after.current_location_id)

\* generate_events, one pass of the loop over the commands (lines 73-88)
generate_events_iteration(g, events, current_location, curr_location, command) ==
    LET normalized == lower(strip(command))
        here == g.locations[curr_location]
    IN  IF normalized \in DOMAIN here.available_commands
        THEN LET next_location_id == here.available_commands[normalized]
                 can_enter == can_enter_location(g, next_location_id)[1]
             IN  IF can_enter
                 THEN Iterated([g EXCEPT !.current_location_id = next_location_id],
                               add_event(events, Event(next_location_id), NoCommand),
                               next_location_id)
                 ELSE Iterated(g, add_event(events, Event(curr_location), NoCommand), curr_location)
        ELSE LET after == _process_non_movement_command(g, normalized)
             IN  Iterated(after, add_event(events, Event(after.current_location_id), NoCommand),
                          after.current_location_id)

\* generate_events: the loop over the commands, and line 90 after it
RECURSIVE generate_events(_, _, _, _, _)
generate_events(g, events, current_location, curr_location, cs) ==
    IF cs = << >>
    THEN Iterated([g EXCEPT !.current_location_id = curr_location], events, curr_location)
    ELSE LET it == generate_events_iteration(g, events, current_location, curr_location,
                                             Head(cs))
         IN  generate_events(it.game, it.events, current_location, it.curr_location, Tail(cs))

\* AdventureGameSimulation.__init__: the game, the event of the initial location
\* and the events of the commands
AdventureGameSimulation(game_data_file_, initial_location_id_, commands_) ==
    LET g == AdventureGame(game_data_file_, initial_location_id_)
        initial_location == get_location(g)
    IN  generate_events(g, add_event(EventList, Event(initial_location.id_num), NoCommand),
                        initial_location.id_num, initial_location.id_num, commands_)

----------------------------------------------------------------------------
(* The console session as a function of what is typed: _run_single_game on  *)
(* a list of inputs, read one per prompt.  It leaves the game, the log, the *)
(* number of inputs _prompt_choice refused and the inputs left unread when  *)
(* the session ended.                                                       *)

Session(g, log, refused, unread) ==
    [game |-> g, game_log |-> log, refused |-> refused, unread |-> unread]

\* _prompt_choice: the input as input().lower().strip() leaves it
_prompt_choice(typed) == strip(lower(typed))

\* the loop of _run_single_game with _resolve_turn inside it, from a prompt on
RECURSIVE _resolve_turn(_, _, _, _)
_resolve_turn(g, log, refused, typed) ==
    IF typed = << >> THEN Session(g, log, refused, typed)
    ELSE LET location == get_location(g)
             choice_ == _prompt_choice(Head(typed))
             moved == _apply_movement(g, location, choice_)
             handled == _handle_non_movement_command(g, choice_).game
         IN  IF ~_is_valid_choice(choice_, location)
             THEN _resolve_turn(g, log, refused + 1, Tail(typed))
             ELSE IF choice_ \in DOMAIN location.available_commands
             THEN IF moved.ongoing
                  THEN _resolve_turn(_show_location(moved, moved.current_location_id).game,
                                     add_event(log, Event(moved.current_location_id), choice_),
                                     refused, Tail(typed))
                  ELSE Session(moved, log, refused, Tail(typed))
             ELSE IF handled.ongoing
                  THEN _resolve_turn(handled, log, refused, Tail(typed))
                  ELSE Session(handled, log, refused, Tail(typed))

\* _run_single_game, on a game made as AdventureGame(file, id)
_run_single_game(game_data_file_, initial_location_id_, typed) ==
    LET g == AdventureGame(game_data_file_, initial_location_id_)
        location == get_location(g)
    IN  _resolve_turn(_show_location(g, location.id_num).game,
                      add_event(EventList, Event(location.id_num), NoCommand), 0, typed)

----------------------------------------------------------------------------
(* State *)

VARIABLES
    game,                \* the AdventureGame object
    game_log,            \* the driver's EventList
    pc,                  \* where the driver waits: "start", "prompt", "ask", "exit"
    choice,              \* the operation last resolved (a command, or a direct call)
    out,                 \* what that operation printed
    ret,                 \* what the engine method it called last returned
    outcome,             \* how the session ended: "NONE", "WIN", "LOSE", "ABORTED"
    evaluations,         \* calls of _did_player_win in this session
    credits,             \* per item: additions of its points to the score, this session
    moves,               \* movement commands applied in this session
    game_data_file,      \* the file the game's catalog was loaded from
    initial_location_id, \* the location the game was set up at
    commands,            \* the commands a simulation was built with
    done,                \* how many of them generate_events has processed
    curr_location,       \* generate_events' local curr_location (a location id)
    ui,                  \* the GameUI: its modal (none or one), and run's local running
    scroll               \* a ScrollArea: rect, offset, content_height

vars == <<game, game_log, pc, choice, out, ret, outcome, evaluations, credits, moves,
          game_data_file, initial_location_id, commands, done, curr_location, ui, scroll>>

ctor == <<game_data_file, initial_location_id>>

\* the state of a simulation, which the console session leaves alone
sim == <<commands, done, curr_location>>

\* the state of the graphical front end, which the other drivers leave alone
gui == <<ui, scroll>>

\* pygame.Rect
Rect(x, y, width, height) == [x |-> x, y |-> y, width |-> width, height |-> height]

\* ScrollArea.__init__
ScrollArea(rect) == [rect |-> rect, offset |-> 0, content_height |-> rect.height]

\* GameUI.__init__ (no modal), with run's local running
GameUI == [modal |-> << >>, running |-> TRUE]

\* [it.name for it in game.inventory]
InventoryNamesOf(g) == [i \in 1..Len(g.inventory) |-> g.inventory[i].name]

ItemNames == {"toonie", "lucky mug", "usb drive", "laptop charger"}

\* The item names the player may type: the catalog's and an unknown one.
TypedNames == ItemNames \cup {"ghost"}

MovementCommands == {<<"go", "west">>, <<"go", "east">>, <<"go", "south">>, <<"go", "north">>}

\* Inputs no location and no menu accepts.
OtherInputs == {<<"dance">>, <<"take">>}

\* Inputs that begin like an item command and are none: _is_valid_choice lets them
\* through and _parse_item_command refuses them.
MalformedItemCommands == {<<"takeoff">>}

NoCredits == [n \in ItemNames |-> 0]

\* _run_single_game's locals and the history of a session that has not begun
NewLog == [game_log |-> EventList, pc |-> "start", choice |-> NoCommand, out |-> << >>,
           ret |-> "None", outcome |-> "NONE", evaluations |-> 0, credits |-> NoCredits,
           moves |-> 0]

\* The constructions the sessions start from: _run_single_game's (line 443), and
\* others with another starting location or the other data file.
Constructions ==
    {<<"game_data.json", 1>>, <<"game_data.json", 3>>, <<"sample_locations.json", 1>>}

Init ==
    \E c \in Constructions :
        /\ game_data_file = c[1]
        /\ initial_location_id = c[2]
        /\ game = AdventureGame(c[1], c[2])
        /\ game_log = NewLog.game_log
        /\ pc = NewLog.pc
        /\ choice = NewLog.choice
        /\ out = NewLog.out
        /\ ret = NewLog.ret
        /\ outcome = NewLog.outcome
        /\ evaluations = NewLog.evaluations
        /\ credits = NewLog.credits
        /\ moves = NewLog.moves
        /\ commands = << >>
        /\ done = 0
        /\ curr_location = 0
        /\ ui = GameUI
        /\ scroll = ScrollArea(Rect(0, 0, 0, 0))

\* the driver starts a session on the game g
NewSession(g) ==
    /\ game' = g
    /\ game_log' = NewLog.game_log
    /\ pc' = NewLog.pc
    /\ choice' = NewLog.choice
    /\ out' = NewLog.out
    /\ ret' = NewLog.ret
    /\ outcome' = NewLog.outcome
    /\ evaluations' = NewLog.evaluations
    /\ credits' = NewLog.credits
    /\ moves' = NewLog.moves

----------------------------------------------------------------------------
(* Actions *)

\* _run_single_game, first pass of the loop: log the initial location and show it
SessionStart ==
    /\ pc = "start"
    /\ game.ongoing
    /\ LET shown == _show_location(game, game.current_location_id)
       IN  /\ game' = shown.game
           /\ out' = shown.out
    /\ game_log' = add_event(game_log, Event(game.current_location_id), NoCommand)
    /\ pc' = "prompt"
    /\ UNCHANGED <<choice, ret, outcome, evaluations, credits, moves, ctor, sim, gui>>

\* the end of a turn that evaluates win or lose on quit as well
EndOfTurn_quit_evaluates(g, previous_choice, quit_requested, printed) ==
    IF g.ongoing
    THEN LET shown == _show_location(g, g.current_location_id)
         IN  /\ game' = shown.game
             /\ out' = printed \o shown.out
             /\ game_log' = add_event(game_log, Event(g.current_location_id), previous_choice)
             /\ pc' = "prompt"
             /\ UNCHANGED <<outcome, evaluations>>
    ELSE /\ game' = g
         /\ evaluations' = evaluations + 1
         /\ outcome' = IF _did_player_win(g) THEN "WIN" ELSE "LOSE"
         /\ out' = printed \o (IF _did_player_win(g) THEN <<"YOU WIN!!!!">> ELSE <<"YOU LOSE!!!!">>)
         /\ pc' = "ask"
         /\ UNCHANGED game_log

\* the end of a turn that adds the event without the command that led to it
EndOfTurn_drops_command(g, previous_choice, quit_requested, printed) ==
    IF quit_requested
    THEN /\ game' = g
         /\ out' = printed
         /\ pc' = "exit"
         /\ outcome' = "ABORTED"
         /\ UNCHANGED <<game_log, evaluations>>
    ELSE IF g.ongoing
    THEN LET shown == _show_location(g, g.current_location_id)
         IN  /\ game' = shown.game
             /\ out' = printed \o shown.out
             /\ game_log' = add_event(game_log, Event(g.current_location_id), NoCommand)
             /\ pc' = "prompt"
             /\ UNCHANGED <<outcome, evaluations>>
    ELSE /\ game' = g
         /\ evaluations' = evaluations + 1
         /\ outcome' = IF _did_player_win(g) THEN "WIN" ELSE "LOSE"
         /\ out' = printed \o (IF _did_player_win(g) THEN <<"YOU WIN!!!!">> ELSE <<"YOU LOSE!!!!">>)
         /\ pc' = "ask"
         /\ UNCHANGED game_log

\* the end of a turn that logs into a new EventList on every pass of the loop
EndOfTurn_fresh_log(g, previous_choice, quit_requested, printed) ==
    IF quit_requested
    THEN /\ game' = g
         /\ out' = printed
         /\ pc' = "exit"
         /\ outcome' = "ABORTED"
         /\ UNCHANGED <<game_log, evaluations>>
    ELSE IF g.ongoing
    THEN LET shown == _show_location(g, g.current_location_id)
         IN  /\ game' = shown.game
             /\ out' = printed \o shown.out
             /\ game_log' = add_event(EventList, Event(g.current_location_id), previous_choice)
             /\ pc' = "prompt"
             /\ UNCHANGED <<outcome, evaluations>>
    ELSE /\ game' = g
         /\ evaluations' = evaluations + 1
         /\ outcome' = IF _did_player_win(g) THEN "WIN" ELSE "LOSE"
         /\ out' = printed \o (IF _did_player_win(g) THEN <<"YOU WIN!!!!">> ELSE <<"YOU LOSE!!!!">>)
         /\ pc' = "ask"
         /\ UNCHANGED game_log

\* the end of a turn that goes round the loop although the session has ended
\* ("while True" for "while game.ongoing")
EndOfTurn_prompts_after_end(g, previous_choice, quit_requested, printed) ==
    IF quit_requested
    THEN /\ game' = g
         /\ out' = printed
         /\ pc' = "exit"
         /\ outcome' = "ABORTED"
         /\ UNCHANGED <<game_log, evaluations>>
    ELSE LET shown == _show_location(g, g.current_location_id)
         IN  /\ game' = shown.game
             /\ out' = printed \o shown.out
             /\ game_log' = add_event(game_log, Event(g.current_location_id), previous_choice)
             /\ pc' = "prompt"
             /\ UNCHANGED <<outcome, evaluations>>

\* _run_single_game after _resolve_turn returned (previous_choice, quit_requested)
\* with the game g: leave on quit, go round the loop while ongoing, else evaluate.
EndOfTurn(g, previous_choice, quit_requested, printed) ==
    IF quit_requested
    THEN /\ game' = g
         /\ out' = printed
         /\ pc' = "exit"
         /\ outcome' = "ABORTED"
         /\ UNCHANGED <<game_log, evaluations>>
    ELSE IF g.ongoing
    THEN LET shown == _show_location(g, g.current_location_id)
         IN  /\ game' = shown.game
             /\ out' = printed \o shown.out
             /\ game_log' = add_event(game_log, Event(g.current_location_id), previous_choice)
             /\ pc' = "prompt"
             /\ UNCHANGED <<outcome, evaluations>>
    ELSE /\ game' = g
         /\ evaluations' = evaluations + 1
         /\ outcome' = IF _did_player_win(g) THEN "WIN" ELSE "LOSE"
         /\ out' = printed \o (IF _did_player_win(g) THEN <<"YOU WIN!!!!">> ELSE <<"YOU LOSE!!!!">>)
         /\ pc' = "ask"
         /\ UNCHANGED game_log

\* _resolve_turn on a non-movement command c: handle it; return when it ended the
\* session, prompt again otherwise
NonMovement(c) ==
    /\ pc = "prompt"
    /\ game.ongoing
    /\ _is_valid_choice(c, get_location(game))
    /\ c \notin DOMAIN get_location(game).available_commands
    /\ choice' = c
    /\ LET r == _handle_non_movement_command(game, c)
       IN  /\ ret' = r.ret
           /\ credits' = IF "completion_text" \in Range(r.out)
                         THEN [credits EXCEPT ![c[2]] = @ + 1]
                         ELSE credits
           /\ IF ~r.game.ongoing
              THEN EndOfTurn(r.game, NoCommand, c = <<"quit">>, r.out)
              ELSE /\ game' = r.game
                   /\ out' = r.out
                   /\ UNCHANGED <<game_log, pc, outcome, evaluations>>
    /\ UNCHANGED <<moves, ctor, sim, gui>>

Movement(c) ==
    /\ pc = "prompt"
    /\ game.ongoing
    /\ c \in DOMAIN get_location(game).available_commands
    /\ choice' = c
    /\ ret' = "None"
    /\ moves' = moves + 1
    /\ EndOfTurn(_apply_movement(game, get_location(game), c), c, FALSE, << >>)
    /\ UNCHANGED <<credits, ctor, sim, gui>>

Move == \E c \in MovementCommands : Movement(c)

Look == NonMovement(<<"look">>)

Inventory == NonMovement(<<"inventory">>)

Score == NonMovement(<<"score">>)

Log == NonMovement(<<"log">>)

Quit == NonMovement(<<"quit">>)

SubmitEarly == NonMovement(<<"submit", "early">>)

Take == \E n \in TypedNames : NonMovement(<<"take", n>>)

Drop == \E n \in TypedNames : NonMovement(<<"drop", n>>)

Inspect == \E n \in TypedNames : NonMovement(<<"inspect", n>>)

\* an input that passes _prompt_choice as an item command and is no item command
Malformed == \E c \in MalformedItemCommands : NonMovement(c)

\* _prompt_choice: an input that is not a valid choice here is refused and asked again
Rejected ==
    \E c \in MovementCommands \cup OtherInputs :
        /\ pc = "prompt"
        /\ game.ongoing
        /\ ~_is_valid_choice(c, get_location(game))
        /\ choice' = c
        /\ out' = <<"That was an invalid option; try again.">>
        /\ ret' = "None"
        /\ UNCHANGED <<game, game_log, pc, outcome, evaluations, credits, moves, ctor, sim, gui>>

\* _ask_play_again and run(): "y" starts _run_single_game again, "n" leaves
PlayAgain ==
    /\ pc = "ask"
    /\ \E again \in {"y", "n"} :
        IF again = "y"
        THEN /\ NewSession(AdventureGame("game_data.json", 1))
             /\ game_data_file' = "game_data.json"
             /\ initial_location_id' = 1
             /\ UNCHANGED <<sim, gui>>
        ELSE /\ pc' = "exit"
             /\ UNCHANGED <<game, game_log, choice, out, ret, outcome, evaluations,
                            credits, moves, ctor, sim, gui>>

\* AdventureGame.reset has no caller in the sources.  The owner of the game may call
\* it at any point between two commands, and then runs the session loop afresh on
\* the game (with a new EventList, as _run_single_game does for a new game).
Reset ==
    /\ game' = reset(game)
    /\ game_data_file' = "game_data.json"
    /\ initial_location_id' = 1
    /\ choice' = <<"reset()", IF game.score > 0 /\ game.turn > 0 THEN "after scoring"
                               ELSE "before scoring">>
    /\ game_log' = NewLog.game_log
    /\ pc' = NewLog.pc
    /\ out' = NewLog.out
    /\ ret' = NewLog.ret
    /\ outcome' = NewLog.outcome
    /\ evaluations' = NewLog.evaluations
    /\ credits' = NewLog.credits
    /\ moves' = NewLog.moves
    /\ UNCHANGED <<sim, gui>>

\* a direct call of check_quest, outside a drop command
CheckQuest ==
    \E n \in TypedNames :
        /\ pc = "prompt"
        /\ game.ongoing
        /\ LET r == check_quest(game, n)
           IN  /\ game' = r.game
               /\ ret' = r.ret
               /\ out' = r.out
               /\ credits' = IF r.ret = "True" THEN [credits EXCEPT ![n] = @ + 1]
                             ELSE credits
        /\ choice' = <<"check_quest()", n>>
        /\ UNCHANGED <<game_log, pc, outcome, evaluations, moves, ctor, sim, gui>>

Next ==
    \/ SessionStart
    \/ Move
    \/ Look
    \/ Inventory
    \/ Score
    \/ Log
    \/ Quit
    \/ SubmitEarly
    \/ Take
    \/ Drop
    \/ Inspect
    \/ Malformed
    \/ Rejected
    \/ PlayAgain
    \/ Reset
    \/ CheckQuest

Spec == Init /\ [][Next]_vars

----------------------------------------------------------------------------
(* The simulation: AdventureGameSimulation(game_data_file,                  *)
(* initial_location_id, commands) replays a list of commands on a game of   *)
(* its own and logs one event per command.                                  *)

\* the longest list of commands a simulation is built with
MaxCommands == 3

\* The commands of the lists: movements (some lead nowhere from some locations,
\* "go south" leads to a restricted location), item commands, a menu command,
\* a string no location knows, and a movement and an item command typed in
\* upper case, capitalized and with whitespace around them.
SimCommands ==
    {<<"go", "west">>, <<"go", "east">>, <<"go", "south">>, <<"take", "toonie">>,
     <<"drop", "toonie">>, <<"inventory">>, <<"buy", "coffee">>,
     <<"GO", "WEST">>, <<Whitespace, "Take", "Toonie", Whitespace>>}

\* Precondition of __init__: len(commands) > 0
CommandLists == UNION {[1..n -> SimCommands] : n \in 1..MaxCommands}

SimConstructions ==
    {<<"game_data.json", 1>>, <<"game_data.json", 2>>, <<"sample_locations.json", 1>>}

\* __init__ after its first two statements: the empty EventList and the new game
InitSim ==
    \E c \in SimConstructions, cs \in CommandLists :
        /\ game_data_file = c[1]
        /\ initial_location_id = c[2]
        /\ commands = cs
        /\ game = AdventureGame(c[1], c[2])
        /\ game_log = EventList
        /\ pc = "sim_init"
        /\ done = 0
        /\ curr_location = 0
        /\ choice = NewLog.choice
        /\ out = NewLog.out
        /\ ret = NewLog.ret
        /\ outcome = NewLog.outcome
        /\ evaluations = NewLog.evaluations
        /\ credits = NewLog.credits
        /\ moves = NewLog.moves
        /\ ui = GameUI
        /\ scroll = ScrollArea(Rect(0, 0, 0, 0))

\* __init__, lines 52-58 and generate_events' line 70: the event of the initial
\* location, and curr_location set to the location passed
SimulationInit ==
    /\ pc = "sim_init"
    /\ game_log' = add_event(game_log, Event(get_location(game).id_num), NoCommand)
    /\ curr_location' = get_location(game).id_num
    /\ pc' = "sim_loop"
    /\ UNCHANGED <<game, choice, out, ret, outcome, evaluations, credits, moves, ctor,
                   commands, done, gui>>

\* generate_events: one pass of the loop, for the next command of the list
GenerateEventsIteration ==
    /\ pc = "sim_loop"
    /\ done < Len(commands)
    /\ LET command == commands[done + 1]
           it == generate_events_iteration(game, game_log, initial_location_id,
                                           curr_location, command)
       IN  /\ game' = it.game
           /\ game_log' = it.events
           /\ curr_location' = it.curr_location
           /\ choice' = command
           /\ credits' = [n \in ItemNames |->
                            IF n \in it.game.returned \ game.returned THEN credits[n] + 1
                            ELSE credits[n]]
    /\ done' = done + 1
    /\ UNCHANGED <<pc, out, ret, outcome, evaluations, moves, ctor, commands, gui>>

\* generate_events, line 90, after the last command
GenerateEventsReturn ==
    /\ pc = "sim_loop"
    /\ done = Len(commands)
    /\ game' = [game EXCEPT !.current_location_id = curr_location]
    /\ pc' = "sim_done"
    /\ UNCHANGED <<game_log, choice, out, ret, outcome, evaluations, credits, moves,
                   ctor, sim, gui>>

NextSim ==
    \/ SimulationInit
    \/ GenerateEventsIteration
    \/ GenerateEventsReturn

SpecSim == InitSim /\ [][NextSim]_vars

----------------------------------------------------------------------------
(* The graphical front end (ui.py): run_pygame_ui, GameUI.run and the       *)
(* handlers of its buttons and keys.  choice is the event last handled, out *)
(* is output_lines.  The scroll offsets of the panels are not part of this  *)
(* state.  Each pass of run's loop lays the buttons out, handles the events *)
(* that arrived and then draws; the header it draws reads game.max_turns    *)
(* (line 914).  The option buttons of a modal are made by its layout, which *)
(* the drawing calls after the header.                                      *)

\* GameUI.location_description: the text for the current location, marking it visited
location_description(g) == _show_location(g, g.current_location_id)

\* what do_move leaves: the game, the log, output_lines, whether it raised, and
\* the outcome it printed
Moved(g, log, printed, raised, printed_outcome) ==
    [game |-> g, log |-> log, out |-> printed, raised |-> raised, outcome |-> printed_outcome]

\* GameUI.do_move
do_move(g, log, command_key) ==
    LET loc == get_location(g)
        moved == [g EXCEPT !.current_location_id = loc.available_commands[command_key],
                           !.turn = @ + 1]
        logged == add_event(log, Event(loc.id_num), command_key)
        max_turns == __getattr__("max_turns")
        min_score == __getattr__("min_score")
        described == location_description(moved)
    IN  IF command_key \notin DOMAIN loc.available_commands
        THEN Moved(g, log, <<"You chose", "That action isn't available here.">>, FALSE, "NONE")
        ELSE IF max_turns = AttributeError
        THEN Moved(moved, logged, <<"You chose">>, TRUE, "NONE")
        ELSE IF max_turns = moved.turn
        THEN IF moved.score >= min_score /\ REQUIRED_ITEMS \subseteq moved.returned
             THEN Moved(moved, logged, <<"You chose", "Win">>, FALSE, "WIN")
             ELSE Moved(moved, logged, <<"You chose", "Lose">>, FALSE, "LOSE")
        ELSE Moved(described.game, logged, <<"You chose">> \o described.out, FALSE, "NONE")

\* ModalPicker.__init__
ModalPicker(title, options) == [title |-> title, options |-> options, is_open |-> TRUE]

UISteps == {"ui_start", "ui_frame", "ui_error", "ui_exit"}

UIConstructions ==
    {<<"game_data.json", 1>>, <<"game_data.json", 2>>,
     <<"sample_locations.json", 1>>, <<"sample_locations.json", 2>>}

\* run_pygame_ui: the empty EventList, the game and the GameUI
InitUI ==
    \E c \in UIConstructions :
        /\ game_data_file = c[1]
        /\ initial_location_id = c[2]
        /\ game = AdventureGame(c[1], c[2])
        /\ game_log = EventList
        /\ ui = GameUI
        /\ pc = "ui_start"
        /\ choice = NewLog.choice
        /\ out = NewLog.out
        /\ ret = NewLog.ret
        /\ outcome = NewLog.outcome
        /\ evaluations = NewLog.evaluations
        /\ credits = NewLog.credits
        /\ moves = NewLog.moves
        /\ commands = << >>
        /\ done = 0
        /\ curr_location = 0
        /\ scroll = ScrollArea(Rect(0, 0, 0, 0))

UIUnchanged == <<ret, evaluations, credits, ctor, sim, scroll>>

\* GameUI.run up to its loop: begin_turn("Start") and the description
UIRun ==
    /\ pc = "ui_start"
    /\ LET described == location_description(game)
       IN  /\ game' = described.game
           /\ out' = <<"You chose">> \o described.out
    /\ choice' = <<"Start">>
    /\ pc' = IF ui.running /\ game.ongoing THEN "ui_frame" ELSE "ui_exit"
    /\ UNCHANGED <<game_log, ui, outcome, moves, UIUnchanged>>

\* a click on a button that only shows something, with no modal in the way
Shows(label, printed) ==
    /\ pc = "ui_frame"
    /\ ui.modal = << >>
    /\ choice' = <<label>>
    /\ out' = <<"You chose">> \o printed
    /\ UNCHANGED <<game, game_log, pc, ui, outcome, moves, UIUnchanged>>

\* a click on a button that opens a modal over the options, or says there are none
Opens(label, title, options, nothing) ==
    /\ pc = "ui_frame"
    /\ ui.modal = << >>
    /\ choice' = <<label>>
    /\ IF options = << >>
       THEN out' = <<"You chose", nothing>> /\ UNCHANGED ui
       ELSE ui' = [ui EXCEPT !.modal = <<ModalPicker(title, options)>>] /\ UNCHANGED out
    /\ UNCHANGED <<game, game_log, pc, outcome, moves, UIUnchanged>>

open_take_modal ==
    Opens("Take", "Take which item?", get_location(game).items,
          "There is nothing to take here.")

open_drop_modal ==
    Opens("Drop", "Drop which item?", InventoryNamesOf(game), "Your inventory is empty.")

open_inspect_modal ==
    Opens("Inspect", "Inspect which item?", InventoryNamesOf(game), "Your inventory is empty.")

do_look == Shows("Look", <<"long_description", "Items here">>)

do_inventory ==
    Shows("Inventory", IF game.inventory # << >> THEN <<"You are carrying:">>
                       ELSE <<"Your inventory is empty.">>)

do_score == Shows("Score", <<"Score">>)

do_log == Shows("Log", <<"get_events_str">>)

\* GameUI.do_quit, from the Quit button or from Escape with no modal open
do_quit ==
    /\ pc = "ui_frame"
    /\ ui.modal = << >>
    /\ \E origin \in {"Quit", "escape"} : choice' = <<origin>>
    /\ out' = <<"You chose", "Quitting...">>
    /\ game' = [game EXCEPT !.ongoing = FALSE]
    /\ UNCHANGED <<game_log, pc, ui, outcome, moves, UIUnchanged>>

\* a click on the button of a command of the location the pass began at
DoMove ==
    \E c \in DOMAIN get_location(game).available_commands :
        /\ pc = "ui_frame"
        /\ ui.modal = << >>
        /\ choice' = c
        /\ LET r == do_move(game, game_log, c)
           IN  /\ game' = r.game
               /\ game_log' = r.log
               /\ out' = r.out
               /\ outcome' = r.outcome
               /\ pc' = IF r.raised THEN "ui_error" ELSE pc
        /\ moves' = moves + 1
        /\ UNCHANGED <<ui, UIUnchanged>>

\* a click while a modal is there: ModalPicker.handle_click before any layout
\* (scroll is None, there is no cancel button)
ModalClick ==
    /\ pc = "ui_frame"
    /\ ui.modal # << >>
    /\ choice' = <<"click", "modal">>
    /\ UNCHANGED <<game, game_log, pc, out, ui, outcome, moves, UIUnchanged>>

\* Escape while a modal is there: ModalPicker.close
ModalClose ==
    /\ pc = "ui_frame"
    /\ ui.modal # << >>
    /\ choice' = <<"escape">>
    /\ ui' = [ui EXCEPT !.modal[1].is_open = FALSE]
    /\ UNCHANGED <<game, game_log, pc, out, outcome, moves, UIUnchanged>>

\* the event pygame.QUIT
QuitEvent ==
    /\ pc = "ui_frame"
    /\ choice' = <<"pygame.QUIT">>
    /\ ui' = [ui EXCEPT !.running = FALSE]
    /\ UNCHANGED <<game, game_log, pc, out, outcome, moves, UIUnchanged>>

\* the rest of the pass once the events are handled: a closed modal is dropped,
\* the header is drawn (turns_left reads game.max_turns), and the loop goes round
\* while running and ongoing
Draw ==
    /\ pc = "ui_frame"
    /\ ui' = IF ui.modal # << >> /\ ~ui.modal[1].is_open THEN [ui EXCEPT !.modal = << >>]
             ELSE ui
    /\ pc' = IF __getattr__("max_turns") = AttributeError THEN "ui_error"
             ELSE IF ui.running /\ game.ongoing THEN "ui_frame"
             ELSE "ui_exit"
    /\ UNCHANGED <<game, game_log, choice, out, outcome, moves, UIUnchanged>>

NextUI ==
    \/ UIRun
    \/ open_take_modal
    \/ open_drop_modal
    \/ open_inspect_modal
    \/ do_look
    \/ do_inventory
    \/ do_score
    \/ do_log
    \/ do_quit
    \/ DoMove
    \/ ModalClick
    \/ ModalClose
    \/ QuitEvent
    \/ Draw

SpecUI == InitUI /\ [][NextUI]_vars

----------------------------------------------------------------------------
(* ScrollArea (ui.py 199-222): one area and the calls of its methods, in    *)
(* any order and with any arguments within the bounds.  Lengths are in      *)
(* units of a wheel step; rectangles have their corner at the origin.       *)

max(a, b) == IF a >= b THEN a ELSE b

min(a, b) == IF a <= b THEN a ELSE b

\* pygame.Rect.collidepoint: the left and top edges are inside, the others are not
collidepoint(rect, pos) ==
    /\ rect.x <= pos[1] /\ pos[1] < rect.x + rect.width
    /\ rect.y <= pos[2] /\ pos[2] < rect.y + rect.height

set_content_height(area, h) ==
    LET content_height == max(h, area.rect.height)
    IN  [area EXCEPT !.content_height = content_height,
                     !.offset = max(0, min(@, content_height - area.rect.height))]

set_rect(area, rect) == set_content_height([area EXCEPT !.rect = rect], area.content_height)

\* handle_wheel that scrolls without looking at the content height
handle_wheel_unclamped(area, mouse_pos, wheel_y, speed) ==
    IF collidepoint(area.rect, mouse_pos)
    THEN [area EXCEPT !.offset = max(0, @ - wheel_y * speed)]
    ELSE area

handle_wheel(area, mouse_pos, wheel_y, speed) ==
    IF collidepoint(area.rect, mouse_pos)
    THEN [area EXCEPT !.offset = max(0, min(@ - wheel_y * speed,
                                            area.content_height - area.rect.height))]
    ELSE area

MaxHeight == 3

MaxContentHeight == 6

AreaWidth == 2

\* the rectangles an area is given
Rects == {Rect(0, 0, AreaWidth, height) : height \in 0..MaxHeight}

\* where the mouse is: over the area, beside it, above it, below it
MousePositions == {<<x, y>> : x \in {0, AreaWidth}, y \in {-1, 0, MaxHeight - 1, MaxHeight}}

\* wheel_y: +1 up, -1 down, and faster turns
WheelTurns == {-2, -1, 1, 2}

\* speed: the default and the callers' are 32 and 36; here one and two units
Speeds == {1, 2}

InitScroll ==
    \E rect \in Rects :
        /\ scroll = ScrollArea(rect)
        /\ pc = "scroll"
        /\ game_data_file = "game_data.json"
        /\ initial_location_id = 1
        /\ game = AdventureGame("game_data.json", 1)
        /\ game_log = EventList
        /\ ui = GameUI
        /\ choice = NewLog.choice
        /\ out = NewLog.out
        /\ ret = NewLog.ret
        /\ outcome = NewLog.outcome
        /\ evaluations = NewLog.evaluations
        /\ credits = NewLog.credits
        /\ moves = NewLog.moves
        /\ commands = << >>
        /\ done = 0
        /\ curr_location = 0

ScrollUnchanged ==
    <<game, game_log, pc, out, ret, outcome, evaluations, credits, moves, ctor, sim, ui>>

SetRect ==
    \E rect \in Rects :
        /\ pc = "scroll"
        /\ scroll' = set_rect(scroll, rect)
        /\ choice' = <<"set_rect">>
        /\ UNCHANGED ScrollUnchanged

SetContentHeight ==
    \E h \in -1..MaxContentHeight :
        /\ pc = "scroll"
        /\ scroll' = set_content_height(scroll, h)
        /\ choice' = <<"set_content_height">>
        /\ UNCHANGED ScrollUnchanged

HandleWheel ==
    \E mouse_pos \in MousePositions, wheel_y \in WheelTurns, speed \in Speeds :
        /\ pc = "scroll"
        /\ scroll' = handle_wheel(scroll, mouse_pos, wheel_y, speed)
        /\ choice' = <<"handle_wheel", IF collidepoint(scroll.rect, mouse_pos) THEN "over the area"
                                       ELSE "outside the area">>
        /\ UNCHANGED ScrollUnchanged

NextScroll ==
    \/ SetRect
    \/ SetContentHeight
    \/ HandleWheel

SpecScroll == InitScroll /\ [][NextScroll]_vars

----------------------------------------------------------------------------
(* Vocabulary of the properties *)

Count(s, x) == Cardinality({i \in 1..Len(s) : s[i] = x})

Held(n) == \E i \in 1..Len(game.inventory) : game.inventory[i].name = n

InventoryNames(g) == [i \in 1..Len(g.inventory) |-> g.inventory[i].name]

\* the lists an item name is in: the inventory and every location's item list
Places(g, n) ==
    (IF Count(InventoryNames(g), n) > 0 THEN {"inventory"} ELSE {})
    \cup {id \in DOMAIN g.locations : Count(g.locations[id].items, n) > 0}

Occurrences(g, n) ==
    LET tally[ids \in SUBSET DOMAIN g.locations] ==
            IF ids = {} THEN 0
            ELSE LET id == CHOOSE x \in ids : TRUE
                 IN  Count(g.locations[id].items, n) + tally[ids \ {id}]
    IN  Count(InventoryNames(g), n) + tally[DOMAIN g.locations]

\* a step of the session resolving the command c
CommandStep(c) == pc = "prompt" /\ choice' = c

\* a step that is a call of reset()
ResetStep ==
    /\ pc' = "start"
    /\ choice' \in {<<"reset()", "after scoring">>, <<"reset()", "before scoring">>}

\* a step that begins a session (a replay or a reset)
SessionBegins == pc' = "start"

SessionEnders == MovementCommands \cup {<<"submit", "early">>}

----------------------------------------------------------------------------
(* C1: in every reachable state, whatever commands and resets were applied, *)
(* current_location_id is a key of the location catalog.                    *)

C1_LocationInCatalog == game.current_location_id \in DOMAIN game.locations

C1_Witness ==
    /\ moves >= 2
    /\ game.current_location_id # initial_location_id
    /\ game.inventory # << >>

(* C2: in every reachable state every item name is in at most one place:    *)
(* never in the inventory and a location's list, never in two lists, never  *)
(* twice in one list.                                                       *)

C2_ItemInOnePlace ==
    \A n \in ItemNames :
        /\ Occurrences(game, n) <= 1
        /\ Cardinality(Places(game, n)) <= 1

\* one item is held and another was just dropped where it stays
C2_Witness ==
    \E n \in ItemNames, m \in ItemNames :
        /\ Held(n)
        /\ choice = <<"drop", m>>
        /\ out = <<"You dropped">>
        /\ Count(get_location(game).items, m) = 1

(* C3: credit occurs exactly once per drop that satisfies the location     *)
(* match: a drop command for a held item at its target location adds the   *)
(* item's points to the score once, any other drop command leaves the      *)
(* score as it is, no other command of the session changes the score, and  *)
(* no item's points are added more than once in a session.                 *)

C3_CreditOncePerDrop ==
    [][ /\ \A n \in TypedNames :
              CommandStep(<<"drop", n>>) =>
                  IF Held(n) /\ get_item(game, n).target_position = game.current_location_id
                  THEN /\ game'.score = game.score + get_item(game, n).target_points
                       /\ credits' = [credits EXCEPT ![n] = @ + 1]
                  ELSE /\ game'.score = game.score
                       /\ credits' = credits
        /\ (~SessionBegins /\ \A n \in TypedNames : ~CommandStep(<<"drop", n>>))
              => game'.score = game.score /\ credits' = credits
        /\ \A n \in ItemNames : credits'[n] <= 1
      ]_vars

C3_Witness ==
    \E n \in ItemNames :
        /\ choice = <<"drop", n>>
        /\ credits[n] = 1
        /\ game.score = get_item(game, n).target_points

(* C4: check_quest for an item that is in the returned set and no longer in *)
(* its target location's item list returns False and changes nothing, also  *)
(* when it is evaluated again on the result.                                *)

C4_ReturnedItemNotCreditedAgain ==
    \A n \in ItemNames :
        (/\ n \in game.returned
         /\ n \notin Range(game.locations[get_item(game, n).target_position].items))
        => LET once  == check_quest(game, n)
               twice == check_quest(once.game, n)
           IN  /\ once.ret = "False"
               /\ once.game = game
               /\ twice.ret = "False"
               /\ twice.game = game

\* check_quest was called, at the target location, for an item returned before
C4_Witness ==
    \E n \in ItemNames :
        /\ choice = <<"check_quest()", n>>
        /\ n \in game.returned
        /\ get_item(game, n).target_position = game.current_location_id
        /\ ret = "False"
        /\ credits[n] = 1

(* C5: check_quest(item) succeeds if and only if the item exists, its       *)
(* target is the current location and its name is in that location's list  *)
(* at the moment of the check; on success the name joins the returned set, *)
(* the score grows by the item's points and one occurrence of the name     *)
(* leaves the list; otherwise nothing changes.  Checked where the check is *)
(* made: in a direct call, and right after the drop of a drop command.     *)

QuestContract(g, n, after, result) ==
    LET here == g.current_location_id
        item == get_item(g, n)
        met  == /\ \E i \in 1..Len(g.items) : g.items[i].name = n
                /\ item.target_position = here
                /\ Count(g.locations[here].items, n) > 0
    IN  /\ result = (IF met THEN "True" ELSE "False")
        /\ met => /\ after.returned = g.returned \cup {n}
                  /\ after.score = g.score + item.target_points
                  /\ Count(after.locations[here].items, n) = Count(g.locations[here].items, n) - 1
                  /\ Len(after.locations[here].items) = Len(g.locations[here].items) - 1
                  /\ \A id \in DOMAIN g.locations \ {here} : after.locations[id] = g.locations[id]
                  /\ after.inventory = g.inventory
                  /\ after.turn = g.turn
                  /\ after.ongoing = g.ongoing
                  /\ after.current_location_id = here
        /\ ~met => after = g

C5_CheckQuestContract ==
    [][ \A n \in TypedNames :
            /\ CommandStep(<<"check_quest()", n>>) => QuestContract(game, n, game', ret')
            /\ (CommandStep(<<"drop", n>>) /\ drop(game, n).ret = "True")
                  => QuestContract(drop(game, n).game, n, game', ret')
      ]_vars

\* a drop at the target was credited, and a drop elsewhere was not
C5_Witness ==
    \E n \in ItemNames, m \in ItemNames :
        /\ choice = <<"drop", n>>
        /\ out = <<"You dropped">>
        /\ ret = "False"
        /\ n \notin game.returned
        /\ m \in game.returned

(* C6: within a session no command decreases the score, none decreases the *)
(* turn counter and none removes a name from the returned set.             *)

C6_Monotonic ==
    [][ ~SessionBegins =>
            /\ game'.score >= game.score
            /\ game'.turn >= game.turn
            /\ game.returned \subseteq game'.returned
      ]_vars

C6_Witness ==
    /\ game.score > 0
    /\ game.turn >= 2
    /\ Cardinality(game.returned) >= 2

(* C7: MAX_TURNS movement commands, with other commands in between, end     *)
(* the session on the last movement and on no earlier one.                  *)

C7_TurnExhaustion ==
    /\ moves <= DEFAULT_MAX_TURNS
    /\ moves = DEFAULT_MAX_TURNS => ~game.ongoing /\ choice \in MovementCommands
    /\ (~game.ongoing /\ choice \in MovementCommands) => moves = DEFAULT_MAX_TURNS
    /\ (game.ongoing /\ pc = "prompt") => moves < DEFAULT_MAX_TURNS

C7_Witness ==
    /\ moves = DEFAULT_MAX_TURNS
    /\ ~game.ongoing
    /\ game.score > 0
    /\ game.inventory # << >>

(* C8: when a session ends by turn exhaustion or submit early, the outcome  *)
(* is WIN if and only if the score is at least the minimum and every        *)
(* required item is in the returned set, and LOSE otherwise; win or lose is *)
(* evaluated exactly once in such a session, and not before its end.        *)

C8_WinIffScoreAndRequired ==
    /\ evaluations <= 1
    /\ (outcome \in {"WIN", "LOSE"}) <=> (evaluations = 1)
    /\ game.ongoing => evaluations = 0
    /\ (~game.ongoing /\ choice \in SessionEnders) =>
          /\ evaluations = 1
          /\ outcome = IF /\ game.score >= DEFAULT_MIN_SCORE
                          /\ REQUIRED_ITEMS \subseteq game.returned
                       THEN "WIN" ELSE "LOSE"

\* a win, and (by replaying) sessions lost for either reason are reachable
C8_Witness ==
    /\ outcome = "WIN"
    /\ choice \in MovementCommands

C8_WitnessLoseOnRequired ==
    /\ outcome = "LOSE"
    /\ game.score >= DEFAULT_MIN_SCORE

C8_WitnessLoseOnScore ==
    /\ outcome = "LOSE"
    /\ REQUIRED_ITEMS \subseteq game.returned

(* C9: quit, in any ongoing state and whatever the score and the returned   *)
(* set, ends the session as aborted: ongoing is False, win or lose is not   *)
(* evaluated and the replay prompt is not reached.                          *)

C9_QuitAborts ==
    /\ choice = <<"quit">> =>
          /\ ~game.ongoing
          /\ outcome = "ABORTED"
          /\ evaluations = 0
          /\ pc = "exit"
    /\ outcome = "ABORTED" => choice = <<"quit">>

\* quit with a winning score and every required item returned
C9_Witness ==
    /\ choice = <<"quit">>
    /\ outcome = "ABORTED"
    /\ game.score >= DEFAULT_MIN_SCORE
    /\ REQUIRED_ITEMS \subseteq game.returned

(* C10: the drop that returns the last required item, with the score        *)
(* already at the minimum, does not end the session; a win is declared only *)
(* by a later turn exhaustion or submit early.                              *)

LastRequiredDrop(n) ==
    /\ n \in REQUIRED_ITEMS
    /\ choice = <<"drop", n>>
    /\ ret = "True"
    /\ REQUIRED_ITEMS \subseteq game.returned
    /\ game.score - get_item(game, n).target_points >= DEFAULT_MIN_SCORE

C10_DropDoesNotEndSession ==
    /\ \A n \in ItemNames :
          LastRequiredDrop(n) => game.ongoing /\ outcome = "NONE" /\ pc = "prompt"
    /\ outcome = "WIN" => choice \in SessionEnders

C10_Witness == \E n \in ItemNames : LastRequiredDrop(n) /\ game.ongoing

----------------------------------------------------------------------------
(* Properties of the simulation (specification SpecSim) *)

\* get_id_log() of the simulation
SimIdLog == get_id_log(game_log)

\* the commands location id offers
Offered(id) == DOMAIN game.locations[id].available_commands

\* The game as the simulation's constructor made it, before any command.
FreshGame == AdventureGame(game_data_file, initial_location_id)

\* the commands of a list in the form command.strip().lower() leaves them
Normalized(cs) == [i \in 1..Len(cs) |-> lower(strip(cs[i]))]

\* cs is a list of movement commands, each offered where the one before led and
\* each leading to a location the player may enter (nothing is picked up on the way)
RECURSIVE ValidRoute(_, _)
ValidRoute(l, cs) ==
    \/ cs = << >>
    \/ /\ Head(cs) \in DOMAIN FreshGame.locations[l].available_commands
       /\ LET dest == FreshGame.locations[l].available_commands[Head(cs)]
          IN  /\ can_enter_location(FreshGame, dest)[1]
              /\ ValidRoute(dest, Tail(cs))

\* the locations such a list visits from l: l0, l1 .. ln
RECURSIVE Route(_, _)
Route(l, cs) ==
    IF cs = << >> THEN <<l>>
    ELSE <<l>> \o Route(FreshGame.locations[l].available_commands[Head(cs)], Tail(cs))

----------------------------------------------------------------------------
(* Properties of the console session's commands (specification Spec) *)

\* the event log after a movement by command c to location dest has been recorded
LoggedMove(log, c, dest) ==
    Append([log EXCEPT ![Len(log)].next_command = c], Event(dest))

\* C15: in the console session every movement command, the one that exhausts the
\* turn budget included, sets current_location_id to the destination the location
\* assigns to it, increments turn by one and appends one event of the new location
\* to the log, the previous tail's next_command being set to the command.
C15_MovementLogged ==
    [][\A c \in MovementCommands :
        (CommandStep(c) /\ c \in DOMAIN get_location(game).available_commands)
            => LET dest == get_location(game).available_commands[c]
               IN  /\ game'.current_location_id = dest
                   /\ game'.turn = game.turn + 1
                   /\ game_log' = LoggedMove(game_log, c, dest)]_vars

\* the movement that exhausted the budget has been applied
C15_Witness ==
    /\ choice \in MovementCommands
    /\ moves = DEFAULT_MAX_TURNS
    /\ game.turn = DEFAULT_MAX_TURNS
    /\ ~game.ongoing
    /\ Len(game_log) = DEFAULT_MAX_TURNS
    /\ game_log[Len(game_log)].id_num # game.current_location_id

\* the location the player is at, and its item list in game g
Here == game.current_location_id

ItemsAt(g, id) == g.locations[id].items

\* everything of the game but the inventory and the current location's list
SameButItems(g, after) ==
    /\ after.score = g.score
    /\ after.turn = g.turn
    /\ after.returned = g.returned
    /\ after.ongoing = g.ongoing
    /\ after.current_location_id = g.current_location_id
    /\ \A id \in DOMAIN g.locations \ {g.current_location_id} :
            ItemsAt(after, id) = ItemsAt(g, id)

\* list after is list before with one occurrence of x taken out
OneRemoved(before, after, x) ==
    /\ Len(after) = Len(before) - 1
    /\ \A y \in Range(before) :
            Count(after, y) = Count(before, y) - (IF y = x THEN 1 ELSE 0)

\* C16: pick_up(name) returns True exactly when name is a recognized item and is in
\* the current location's list; then the item is appended to the inventory and one
\* occurrence of the name leaves that list, while score, turn, returned, the
\* current location and the other locations' lists stay as they were.
C16_PickUpContract ==
    [][\A n \in TypedNames :
        CommandStep(<<"take", n>>)
            => /\ ret' = "True" <=> (n \in game.valid_items /\ n \in Range(ItemsAt(game, Here)))
               /\ ret' = "True"
                    => /\ game'.inventory = Append(game.inventory, get_item(game, n))
                       /\ OneRemoved(ItemsAt(game, Here), ItemsAt(game', Here), n)
                       /\ SameButItems(game, game')]_vars

\* an item was taken from a location where other items still lie
C16_Witness ==
    \E n \in ItemNames :
        /\ choice = <<"take", n>>
        /\ ret = "True"
        /\ out = <<"You picked up">>
        /\ Held(n)
        /\ ItemsAt(game, Here) # << >>

\* C17: take <item> for a name that is unknown or not in the current location's
\* list returns failure and leaves the inventory, every location's list, score,
\* turn, returned and ongoing unchanged.
C17_FailedTakeChangesNothing ==
    [][\A n \in TypedNames :
        (/\ CommandStep(<<"take", n>>)
         /\ (n \notin game.valid_items \/ n \notin Range(ItemsAt(game, Here))))
            => /\ ret' = "False"
               /\ out' = <<"No such item here.">>
               /\ game' = game]_vars

\* a take of an item that lies in another location failed, the player carrying
\* something
C17_Witness ==
    \E n \in ItemNames :
        /\ choice = <<"take", n>>
        /\ ret = "False"
        /\ out = <<"No such item here.">>
        /\ game.inventory # << >>
        /\ \E id \in DOMAIN game.locations \ {Here} : n \in Range(ItemsAt(game, id))

\* the game after item n went from the inventory to the end of the current
\* location's list
Laid(g, n) ==
    [g EXCEPT !.inventory = ListRemove(@, get_item(g, n)),
              !.locations[g.current_location_id].items = Append(@, n)]

\* C18: drop(name) succeeds exactly when name is a recognized item and is in the
\* inventory; then the item leaves the inventory, its name is appended to the
\* current location's list and quest completion is evaluated on that state at once,
\* within the same command.
C18_DropContract ==
    [][\A n \in TypedNames :
        CommandStep(<<"drop", n>>)
            => /\ out'[1] = "You dropped" <=> (n \in game.valid_items /\ Held(n))
               /\ out'[1] = "You dropped"
                    => /\ QuestContract(Laid(game, n), n, game', ret')
                       /\ OneRemoved(InventoryNames(game), InventoryNames(game'), n)
                       /\ ret' = "False" => ItemsAt(game', Here) = Append(ItemsAt(game, Here), n)]_vars

\* a drop at the item's target was credited on the spot and the item consumed
C18_Witness ==
    \E n \in ItemNames :
        /\ choice = <<"drop", n>>
        /\ out = <<"You dropped", "completion_text", "Your score is now">>
        /\ ret = "True"
        /\ n \in game.returned
        /\ game.score = get_item(game, n).target_points
        /\ Places(game, n) = {}

\* C19: drop <item> for a name that is unknown or not in the inventory reports
\* failure and changes nothing; no quest is credited.
C19_FailedDropChangesNothing ==
    [][\A n \in TypedNames :
        (CommandStep(<<"drop", n>>) /\ ~(n \in game.valid_items /\ Held(n)))
            => /\ ret' = "False"
               /\ out' = <<"No such item in inventory.">>
               /\ game' = game
               /\ credits' = credits]_vars

\* a drop of an item that lies in the current location, by a player who carries
\* another item
C19_Witness ==
    \E n \in ItemNames :
        /\ choice = <<"drop", n>>
        /\ ret = "False"
        /\ out = <<"No such item in inventory.">>
        /\ game.inventory # << >>
        /\ n \in Range(ItemsAt(game, Here))

\* C20: inspect <item> changes no state, whatever the name; it prints (the hint and
\* the target) only when the name is a recognized item that is in the inventory.
C20_InspectReadOnly ==
    [][\A n \in TypedNames :
        CommandStep(<<"inspect", n>>)
            => /\ game' = game
               /\ UNCHANGED <<game_log, pc, outcome, evaluations, credits, moves>>
               /\ out' # << >> <=> (n \in game.valid_items /\ Held(n))]_vars

\* an inspection of a carried item printed its hint
C20_Witness ==
    \E n \in ItemNames :
        /\ choice = <<"inspect", n>>
        /\ out = <<"hint", "It needs to go to">>
        /\ Held(n)

\* the four menu commands that only display
QueryCommands == {<<"look">>, <<"inventory">>, <<"score">>, <<"log">>}

\* C21: the menu commands look, inventory, score and log are read-only: each leaves
\* the current location, the inventory, every location's item list and visited
\* flag, score, turn, returned, ongoing and the event log unchanged.
C21_QueriesReadOnly ==
    [][\A c \in QueryCommands :
        CommandStep(c) => /\ game' = game
                          /\ game_log' = game_log
                          /\ pc' = "prompt"]_vars

\* the log was displayed by a player who has moved, carries an item and has scored
C21_Witness ==
    /\ choice = <<"log">>
    /\ out = <<"display_events">>
    /\ Len(game_log) >= 2
    /\ game.inventory # << >>
    /\ game.score > 0

\* C22: submit early, in any ongoing state, sets ongoing to False whatever the
\* score, and the session goes through the win/lose evaluation, never the abort
\* path; the command itself leaves score, inventory, returned and turn alone.
C22_SubmitEarlyEvaluates ==
    [][CommandStep(<<"submit", "early">>)
        => /\ ~game'.ongoing
           /\ evaluations' = evaluations + 1
           /\ outcome' = (IF _did_player_win(game) THEN "WIN" ELSE "LOSE")
           /\ pc' = "ask"
           /\ game'.score = game.score
           /\ game'.inventory = game.inventory
           /\ game'.returned = game.returned
           /\ game'.turn = game.turn]_vars

\* an early submission by a player who had not won, with items in hand
C22_Witness ==
    /\ choice = <<"submit", "early">>
    /\ outcome = "LOSE"
    /\ ~game.ongoing
    /\ game.inventory # << >>
    /\ game.turn < DEFAULT_MAX_TURNS

\* c is a movement offered at the current location, a menu keyword or an item
\* command "<verb> <item name>"
Recognized(c) ==
    \/ c \in DOMAIN get_location(game).available_commands
    \/ c \in MENU_COMMANDS
    \/ (Len(c) = 2 /\ c[1] \in {"take", "drop", "inspect"})

C24_TerminalStatesFrozen ==
    [][~game.ongoing
        => /\ pc \in {"ask", "exit"}
           /\ SessionBegins \/ (game' = game /\ game_log' = game_log)]_vars

\* a session that ended by evaluation, after which the player declined to replay
C24_Witness ==
    /\ ~game.ongoing
    /\ pc = "exit"
    /\ outcome \in {"WIN", "LOSE"}
    /\ game.inventory # << >>
    /\ Len(game_log) >= 2

\* C25: ongoing changes from True to False only by a movement that brings turn to
\* the maximum, by submit early or by quit; no take, drop, inspect, look,
\* inventory, score, log or rejected command ends the session.
C25_OnlyThreeEnders ==
    [][(game.ongoing /\ ~game'.ongoing)
        => /\ pc = "prompt"
           /\ \/ choice' = <<"submit", "early">>
              \/ choice' = <<"quit">>
              \/ /\ choice' \in MovementCommands
                 /\ game'.turn = game.turn + 1
                 /\ game'.turn = DEFAULT_MAX_TURNS]_vars

\* a session ended by quit, after the player had moved and taken an item
C25_Witness ==
    /\ ~game.ongoing
    /\ choice = <<"quit">>
    /\ game.turn > 0
    /\ game.inventory # << >>

\* the places of the claim in which item n is: its origin location's list, the
\* inventory, its target location's list
ThreePlaces(g, n) ==
    (IF Count(ItemsAt(g, get_item(g, n).start_position), n) > 0 THEN {"origin"} ELSE {})
    \cup (IF Count(InventoryNames(g), n) > 0 THEN {"inventory"} ELSE {})
    \cup (IF Count(ItemsAt(g, get_item(g, n).target_position), n) > 0 THEN {"target"} ELSE {})

\* C26 as stated: at any instant every item is in exactly one of three places, its
\* origin location's item list, the inventory, or its target location's item list.
C26_OneOfThreePlaces ==
    \A n \in game.valid_items : Cardinality(ThreePlaces(game, n)) = 1

\* C26, amended: every item that has not been returned is in exactly one place, the
\* inventory or the item list of one location (whichever it was last dropped at,
\* its origin until first taken), once; a returned item is in no list at all.
C26_OnePlaceUntilReturned ==
    \A n \in game.valid_items :
        /\ n \notin game.returned
                => Occurrences(game, n) = 1 /\ Cardinality(Places(game, n)) = 1
        /\ n \in game.returned => Occurrences(game, n) = 0

\* an item lies, not returned, in a location that is neither its origin nor its
\* target
C26_Witness ==
    \E n \in game.valid_items :
        /\ n \notin game.returned
        /\ choice = <<"drop", n>>
        /\ Count(ItemsAt(game, Here), n) = 1
        /\ Here \notin {get_item(game, n).start_position, get_item(game, n).target_position}

\* C27: after reset(), whatever was played before, the player state has its initial
\* values (inventory empty, score 0, turn 0, returned empty), ongoing is True and
\* every location's item list and visited flag are those of freshly loaded world
\* data.
C27_ResetRestores ==
    [][ResetStep
        => /\ game'.inventory = << >>
           /\ game'.score = 0
           /\ game'.turn = 0
           /\ game'.returned = {}
           /\ game'.ongoing
           /\ \E f \in DataFiles :
                /\ DOMAIN game'.locations = DOMAIN _load_game_data(f).locations
                /\ \A id \in DOMAIN game'.locations :
                    /\ ItemsAt(game', id) = ItemsAt(_load_game_data(f), id)
                    /\ game'.locations[id].visited = _load_game_data(f).locations[id].visited]_vars

\* a reset has acted on a game in which the player had moved and scored
C27_Witness ==
    /\ choice = <<"reset()", "after scoring">>
    /\ pc = "start"
    /\ game.score = 0
    /\ game_log = << >>

\* C28: reset() returns the game to the state it had right after construction, for
\* every data source and initial location id given to the constructor and whatever
\* was played since: the catalog is the one loaded from that source and
\* current_location_id is the constructor's initial location id.
C28_ResetIsConstruction ==
    [][ResetStep => game' = AdventureGame(game_data_file, initial_location_id)]_vars

----------------------------------------------------------------------------
(* Properties of the event log (specification Spec).  The list's first and  *)
(* last references are the first and last element of the sequence, an       *)
(* event's successor is the next element.                                   *)

First(log) == log[1]

Last(log) == log[Len(log)]

\* a step of the session in which add_event is called: the first pass of the
\* loop, and every pass after a movement that left the session ongoing
AddEventStep ==
    \/ pc = "start" /\ pc' = "prompt"
    \/ /\ pc = "prompt"
       /\ pc' = "prompt"
       /\ choice' \in DOMAIN get_location(game).available_commands

\* C29: add_event always succeeds and appends at the tail: on an empty log the new
\* event becomes both first and last; on a non-empty log the previous last event's
\* outgoing command is set to the preceding command, its successor is the new
\* event, the new event becomes last and first stays the same event.
C29_AddEventAppends ==
    [][AddEventStep
        => /\ Len(game_log') = Len(game_log) + 1
           /\ Last(game_log') = Event(game'.current_location_id)
           /\ game_log = << >> => First(game_log') = Last(game_log')
           /\ game_log # << >>
                => /\ game_log'[Len(game_log)] = [Last(game_log) EXCEPT !.next_command = choice']
                   /\ First(game_log').id_num = First(game_log).id_num
                   /\ \A i \in 1..(Len(game_log) - 1) : game_log'[i] = game_log[i]]_vars

\* two events have been added: the first holds the movement chosen at it, the
\* last holds no command yet
C29_Witness ==
    /\ pc = "prompt"
    /\ Len(game_log) = 2
    /\ First(game_log).next_command \in MovementCommands
    /\ First(game_log).next_command = choice
    /\ Last(game_log).next_command = NoCommand

IsPrefix(s, t) == Len(s) <= Len(t) /\ SubSeq(t, 1, Len(s)) = s

\* C30: the event log is append-only and well-formed: it is non-empty once a
\* session has started, it holds as many events from first to last as were added,
\* and within a session the id log before a step is a prefix of the id log after
\* it, longer by one at most: nothing is removed or reordered, repeats are kept.
C30_LogAppendOnly ==
    [][/\ pc' # "start" => game_log' # << >>
       /\ Len(get_id_log(game_log')) = Len(game_log')
       /\ ~SessionBegins
            => /\ IsPrefix(get_id_log(game_log), get_id_log(game_log'))
               /\ Len(game_log') <= Len(game_log) + 1
               /\ AddEventStep <=> Len(game_log') = Len(game_log) + 1]_vars

\* a log of three events in which a location occurs twice
C30_Witness ==
    /\ Len(game_log) = 3
    /\ get_id_log(game_log)[1] = get_id_log(game_log)[3]
    /\ get_id_log(game_log)[2] # get_id_log(game_log)[1]

----------------------------------------------------------------------------
(* Sum of the point values of a set of item names, from the catalog.        *)
RECURSIVE PointsOf(_, _)
PointsOf(g, names) ==
    IF names = {} THEN 0
    ELSE LET n == CHOOSE x \in names : TRUE
         IN  get_item(g, n).target_points + PointsOf(g, names \ {n})

\* C31: in every reachable state of a session 0 <= turn <= MAX_TURNS, and no
\* movement is applied once turn equals MAX_TURNS: the session is then over and
\* the driver is no longer at the prompt, the only place a movement is taken from.
C31_TurnWithinBudget ==
    /\ game.turn \in 0..DEFAULT_MAX_TURNS
    /\ game.turn = DEFAULT_MAX_TURNS => ~game.ongoing /\ pc # "prompt"
    /\ ENABLED Move => game.turn < DEFAULT_MAX_TURNS

C31_Witness ==
    /\ game.turn = DEFAULT_MAX_TURNS
    /\ choice \in MovementCommands
    /\ ~game.ongoing
    /\ ~ENABLED Move

\* C35: the score equals the sum of the point values of the items in the returned
\* set, in every reachable state.
C35_ScoreIsSumOfReturned == game.score = PointsOf(game, game.returned)

C35_Witness ==
    /\ Cardinality(game.returned) >= 2
    /\ game.score = PointsOf(game, game.returned)
    /\ game.score > 0

\* C38: only movement commands consume the turn budget: turn always equals the
\* number of movement commands applied in the session, so take, drop, inspect,
\* look, inventory, score, log, submit early, quit and rejected commands leave it
\* unchanged.
C38_TurnCountsMovements == game.turn = moves

C38_Witness ==
    /\ game.turn = moves
    /\ moves >= 1
    /\ pc = "prompt"
    /\ choice \in QueryCommands

----------------------------------------------------------------------------
(* Commands as they are typed (specification SpecSim) *)

----------------------------------------------------------------------------
(* The two drivers of the engine side by side (specification SpecDrivers):  *)
(* a run is a console session or the construction of a simulation.          *)

SimulationSteps == {"sim_init", "sim_loop", "sim_done"}

InitDrivers == Init \/ InitSim

ConsoleNext == pc \notin SimulationSteps /\ Next

NextDrivers == ConsoleNext \/ NextSim

SpecDrivers == InitDrivers /\ [][NextDrivers]_vars

\* C37: whenever the console session is ongoing and waiting for a command, the log
\* holds exactly turn + 1 events and its last event's id is current_location_id;
\* likewise, once a simulation is constructed, current_location_id is the last
\* entry of get_id_log().
C37_LogTracksLocation ==
    /\ (pc = "prompt" /\ game.ongoing)
            => /\ Len(game_log) = game.turn + 1
               /\ Last(get_id_log(game_log)) = game.current_location_id
    /\ pc = "sim_done" => Last(SimIdLog) = game.current_location_id

\* a console session waiting for a command after two movements that changed the
\* location
C37_Witness ==
    /\ pc = "prompt"
    /\ game.ongoing
    /\ game.turn = 2
    /\ Len(game_log) = 3
    /\ get_id_log(game_log)[2] # get_id_log(game_log)[1]
    /\ Last(get_id_log(game_log)) = game.current_location_id

\* a constructed simulation whose last movement was refused
C37_WitnessSimulation ==
    /\ pc = "sim_done"
    /\ Len(commands) >= 2
    /\ commands[Len(commands)] = <<"go", "south">>
    /\ SimIdLog[Len(commands)] = 1
    /\ Last(SimIdLog) = 1
    /\ game.current_location_id = 1

----------------------------------------------------------------------------
(* The console driver and the simulation on the same input (SpecSim) *)

\* the console session on the commands of the simulation
ConsoleSession == _run_single_game(game_data_file, initial_location_id, commands)

\* the console accepted and resolved every command of the list
AllResolved == ConsoleSession.refused = 0 /\ ConsoleSession.unread = << >>

\* command i of the simulation was a movement offered where the player was
SimMovement(i) == lower(strip(commands[i])) \in Offered(SimIdLog[i])

\* the console session entered no location that has restrictions (a simulation
\* refuses the movement to one when the player does not meet them)
NoneRestricted ==
    \A id \in Range(get_id_log(ConsoleSession.game_log)) :
        FreshGame.locations[id].restrictions = {}

\* the list holds movement commands only
MovementsOnly == \A i \in 1..Len(commands) : lower(strip(commands[i])) \in MovementCommands

\* the entries of the simulation's id log that movements appended, after the first
RECURSIVE MovementEntries(_)
MovementEntries(n) ==
    IF n = 0 THEN <<SimIdLog[1]>>
    ELSE IF SimMovement(n) THEN Append(MovementEntries(n - 1), SimIdLog[n + 1])
    ELSE MovementEntries(n - 1)

C36_WitnessMovements ==
    /\ pc = "sim_done"
    /\ AllResolved
    /\ ConsoleSession.game.ongoing
    /\ NoneRestricted
    /\ Len(commands) = 2
    /\ MovementsOnly
    /\ get_id_log(ConsoleSession.game_log) = SimIdLog
    /\ SimIdLog[2] # SimIdLog[1]

----------------------------------------------------------------------------
(* The graphical front end (specification SpecUI) *)

\* C33: in GameUI.do_move, a movement that brings turn to the maximum ends the
\* session (ongoing False) with win or lose evaluated, so that no further movement
\* can be applied; a movement below the maximum leaves the front end running.
C33_MoveEndsSessionAtBudget ==
    (pc \in UISteps /\ moves > 0)
        => /\ pc # "ui_error"
           /\ game.turn <= DEFAULT_MAX_TURNS
           /\ game.turn = DEFAULT_MAX_TURNS
                => ~game.ongoing /\ outcome \in {"WIN", "LOSE"}

\* the front end after its first movement: do_move has raised, with the session
\* ongoing and nothing evaluated
C33_Witness ==
    /\ pc = "ui_error"
    /\ moves = 1
    /\ game.turn = 1
    /\ game.ongoing
    /\ outcome = "NONE"

\* C34: in the graphical front end each successful movement appends an event that
\* records the destination with the command that led to it, so after every move the
\* last id in the log is current_location_id, and the log is non-empty from the
\* start of the session.
C34_LogFollowsMoves ==
    pc \in (UISteps \ {"ui_start"})
        => /\ game_log # << >>
           /\ Last(game_log).id_num = game.current_location_id

\* the front end after a movement: the log holds one event, of the location left
C34_Witness ==
    /\ pc \in UISteps
    /\ moves = 1
    /\ Len(game_log) = 1
    /\ Last(game_log).id_num = initial_location_id
    /\ game.current_location_id # initial_location_id

----------------------------------------------------------------------------
(* ScrollArea (specification SpecScroll) *)

\* C39: a ScrollArea keeps its scroll offset clamped: after any sequence of
\* set_rect, set_content_height and handle_wheel calls, content_height is at least
\* rect.height and 0 <= offset <= content_height - rect.height; handle_wheel with
\* the mouse outside the area leaves the offset unchanged.
C39_OffsetClamped ==
    /\ [](pc = "scroll" =>
            /\ scroll.content_height >= scroll.rect.height
            /\ 0 <= scroll.offset
            /\ scroll.offset <= scroll.content_height - scroll.rect.height)
    /\ [][(pc = "scroll" /\ choice' = <<"handle_wheel", "outside the area">>)
            => scroll'.offset = scroll.offset]_vars

\* an area scrolled to the end of its content by the wheel, not at the start
C39_Witness ==
    /\ pc = "scroll"
    /\ choice = <<"handle_wheel", "over the area">>
    /\ scroll.rect.height > 0
    /\ scroll.offset > 1
    /\ scroll.offset = scroll.content_height - scroll.rect.height

====
